---- MODULE Spec2Model ----
(***************************************************************************)
(* Model of src/imdb_rating_predict_model.py: main(train, out) loads the   *)
(* training frame, runs GridSearchCV over ridge__alpha with n_jobs=-1,     *)
(* writes the sorted cv_results_ report, refits and dumps the best         *)
(* pipeline.                                                               *)
(*                                                                         *)
(* Rows of the training frame are identified by the fold that holds them   *)
(* out, so a set of folds stands for the set of rows of these folds and    *)
(* Folds stands for the entire frame.  A score is [nan, val]; a mean is    *)
(* kept as its numerator over n_splits (all candidates share n_splits).    *)
(***************************************************************************)
EXTENDS Integers, Sequences, FiniteSets, TLC

\* ---------------------------------------------------------------- bounds
NumCand == 2      \* candidates searched: the first NumCand of the 10 of param_grid
n_splits == 2     \* cross-validation folds (5 with GridSearchCV's default cv)
MaxScore == 1     \* held-out scores are drawn from 0..MaxScore
NumWorkers == 2   \* workers of the n_jobs=-1 pool (host core count)

\* ------------------------------------------------------ program constants
GridStart == 500
GridStop == 1000
GridStep == 50
RidgeDefaultAlpha == 1

VARIABLES
    pc,              \* position of main
    input,           \* what the <train> file holds
    outDir,          \* "absent" | "present": the <out> directory
    reportFile,      \* <out>/hyper_param_search_result.csv
    modelFile,       \* <out>/model.pkl
    nextTask,        \* next (candidate, fold) task the pool dispatches
    workers,         \* per worker: the task it holds and its own estimator
    results,         \* per task: the outcome the worker returned
    cv_results,      \* cv_results_: mean_test_score, rank_test_score
    best_index,      \* best_index_ (0 before the ranking)
    best_estimator,  \* best_estimator_
    final_model,     \* final_model of line 80-81
    dumps            \* number of joblib.dump calls that completed

vars == <<pc, input, outDir, reportFile, modelFile, nextTask, workers, results,
          cv_results, best_index, best_estimator, final_model, dumps>>

\* ------------------------------------------------------------ search space
Min(a, b) == IF a < b THEN a ELSE b

\* np.arange(start, stop, step): start, start+step, ... below stop
Arange(start, stop, step) ==
    LET n == IF stop > start THEN (stop - start + step - 1) \div step ELSE 0
    IN  [i \in 1..n |-> start + (i - 1) * step]

param_grid == Arange(GridStart, GridStop, GridStep)

candidates == SubSeq(param_grid, 1, Min(NumCand, Len(param_grid)))

Cands == 1..Len(candidates)
Folds == 1..n_splits
Workers == 1..NumWorkers

\* product(candidate_params, cv.split(X, y)): candidates outer, folds inner
NumTasks == Len(candidates) * n_splits
Tasks == 1..NumTasks
\* mutant: the tasks enumerated folds outer, candidates inner
TaskCandFoldsOuter(t) == ((t - 1) % Len(candidates)) + 1

TaskCand(t) == ((t - 1) \div n_splits) + 1
TaskFold(t) == ((t - 1) % n_splits) + 1
TaskOf(c, f) == (c - 1) * n_splits + f

\* --------------------------------------------------------------- scores
NaN == [nan |-> TRUE, val |-> 0]
Num(v) == [nan |-> FALSE, val |-> v]
ScoreVals == {Num(v) : v \in 0..MaxScore}

\* ------------------------------------------------------------- estimator
Unfitted == {}

\* lines 53-58: Pipeline([('prepro', preprocessor), ('ridge', Ridge())])
ml_pipe == [alpha |-> RidgeDefaultAlpha, fitted_on |-> Unfitted]

\* sklearn.base.clone: same parameters, no learned state
Clone(est) == [alpha |-> est.alpha, fitted_on |-> Unfitted]

\* set_params(ridge__alpha=a)
SetParams(est, a) == [est EXCEPT !.alpha = a]

\* Pipeline.fit(X, y): the learned state is recomputed from the given rows
Fit(est, rows) == [est EXCEPT !.fitted_on = rows]

\* mutant: the held-out fold is among the rows the task is fit on
TrainFoldsLeaky(f) == Folds

\* rows a (candidate, fold) task is fit on: the other k-1 folds
TrainFolds(f) == Folds \ {f}

\* mutant: the refit leaves the first fold out
FoldSubset == Folds \ {1}

\* rows of the refit: the entire training frame
WholeFrame == Folds

\* ---------------------------------------------------------------- inputs
\* The <train> file decides what every fit and score gives: r2[t] is the r2
\* of task t on its held-out fold, NaN when the task's fit raises
\* (degenerate partition, numerical instability).
ZeroTable == [t \in Tasks |-> Num(0)]
AllTables == [Tasks -> ScoreVals \cup {NaN}]

\* frames of the workflow specification: at most one task departs from the
\* common score (by its r2, or by a fit that raises)
Frames ==
    {[ZeroTable EXCEPT ![t] = s] : t \in Tasks, s \in (ScoreVals \cup {NaN})}

OkInput(r2) == [kind |-> "ok", badFold |-> 0, r2 |-> r2]

Inputs ==
    {OkInput(r2) : r2 \in Frames}
    \cup {[kind |-> k, badFold |-> 0, r2 |-> ZeroTable] :
             k \in {"unreadable", "no_target", "no_feature"}}
    \cup {[kind |-> "bad_sentiment", badFold |-> f, r2 |-> ZeroTable] : f \in Folds}

\* mutant: a sentiment outside the declared categories is encoded, not refused
BadRowsIgnoringUnknown(inp, rows) == inp.kind = "no_feature"

\* does Pipeline.fit on `rows` raise because of what the rows hold?
\*  - a missing feature column makes ColumnTransformer.fit raise on any rows;
\*  - OrdinalEncoder(categories=[[neg, compound, neu, pos]]) raises on a value
\*    outside the declared categories among the rows it is fit on.
BadRows(inp, rows) ==
    \/ inp.kind = "no_feature"
    \/ inp.kind = "bad_sentiment" /\ inp.badFold \in rows

\* the candidate an estimator's alpha stands for
CandOf(est) == CHOOSE c \in Cands : candidates[c] = est.alpha

\* does the fit of a cross-validation task raise?
CvFitRaises(inp, est, f) ==
    \/ BadRows(inp, TrainFolds(f))
    \/ inp.kind = "ok" /\ inp.r2[TaskOf(CandOf(est), f)].nan

\* r2 of a fitted estimator on held-out fold f
R2Score(inp, est, f) == inp.r2[TaskOf(CandOf(est), f)]

\* does scoring on held-out fold f raise?  OrdinalEncoder.transform raises on
\* an unknown category among the held-out rows.
ScoreRaises(inp, f) == inp.kind = "bad_sentiment" /\ inp.badFold = f

\* outcomes of a fit on the whole frame: it raises on bad rows, and may
\* raise for lack of resources otherwise
WholeFitRaises(inp) == IF BadRows(inp, WholeFrame) THEN {TRUE} ELSE BOOLEAN

\* --------------------------------------------------------------- files
NoFile == [kind |-> "none", rows |-> <<>>, est |-> ml_pipe]
StaleFile == [kind |-> "stale", rows |-> <<>>, est |-> ml_pipe]
PartialFile == [kind |-> "partial", rows |-> <<>>, est |-> ml_pipe]
ReportOf(rows) == [kind |-> "written", rows |-> rows, est |-> ml_pipe]
ModelOf(est) == [kind |-> "written", rows |-> <<>>, est |-> est]

\* ------------------------------------------------------------- task state
Idle == [task |-> 0, phase |-> "idle", est |-> ml_pipe]
Pending ==
    [done |-> FALSE, score |-> NaN, fit_failed |-> FALSE,
     alpha |-> 0, train |-> {}, test |-> 0]
Outcome(score, failed, est, f) ==
    [done |-> TRUE, score |-> score, fit_failed |-> failed,
     alpha |-> est.alpha, train |-> est.fitted_on, test |-> f]

NoResults == [mean |-> [c \in Cands |-> NaN], rank |-> [c \in Cands |-> 0]]

\* _fit_and_score of the pair (c, f) run on its own, as the sequential
\* (n_jobs=1) search runs it: a fresh clone set to candidate c, fit on the
\* other folds, scored on fold f
SequentialOutcome(inp, c, f) ==
    LET est == SetParams(Clone(ml_pipe), candidates[c])
        fitted == Fit(est, TrainFolds(f))
    IN  IF CvFitRaises(inp, est, f) THEN Outcome(NaN, TRUE, est, f)
        ELSE IF ScoreRaises(inp, f) THEN Outcome(NaN, FALSE, fitted, f)
        ELSE Outcome(R2Score(inp, fitted, f), FALSE, fitted, f)

Init ==
    /\ pc = "start"
    /\ input \in Inputs
    /\ \E d \in {"absent", "empty", "stale"} :
         /\ outDir = IF d = "absent" THEN "absent" ELSE "present"
         /\ reportFile = IF d = "stale" THEN StaleFile ELSE NoFile
         /\ modelFile = IF d = "stale" THEN StaleFile ELSE NoFile
    /\ nextTask = 1
    /\ workers = [w \in Workers |-> Idle]
    /\ results = [t \in Tasks |-> Pending]
    /\ cv_results = NoResults
    /\ best_index = 0
    /\ best_estimator = ml_pipe
    /\ final_model = ml_pipe
    /\ dumps = 0

\* line 42: train_df = pd.read_csv(train)
ReadCsv ==
    /\ pc = "start"
    /\ pc' = IF input.kind = "unreadable" THEN "failed" ELSE "loaded"
    /\ UNCHANGED <<input, outDir, reportFile, modelFile, nextTask, workers,
                   results, cv_results, best_index, best_estimator,
                   final_model, dumps>>

\* line 43: train_df.drop(columns=[target] + drop_features), train_df[target]
\* (lines 46-70 then build the unfitted pipeline and the search object)
SelectColumns ==
    /\ pc = "loaded"
    /\ pc' = IF input.kind = "no_target" THEN "failed" ELSE "search"
    /\ UNCHANGED <<input, outDir, reportFile, modelFile, nextTask, workers,
                   results, cv_results, best_index, best_estimator,
                   final_model, dumps>>

\* the estimator a task is evaluated with: the worker's own clone of the
\* pipeline, set to the task's candidate
TaskEstimator(t) == SetParams(Clone(ml_pipe), candidates[TaskCand(t)])

\* line 71, the parallel stage (n_jobs=-1): an idle worker takes the next task
Dispatch(w) ==
    /\ pc = "search"
    /\ workers[w].phase = "idle"
    /\ nextTask <= NumTasks
    /\ workers' = [workers EXCEPT ![w] =
          [task |-> nextTask, phase |-> "fit", est |-> TaskEstimator(nextTask)]]
    /\ nextTask' = nextTask + 1
    /\ UNCHANGED <<pc, input, outDir, reportFile, modelFile, results,
                   cv_results, best_index, best_estimator, final_model, dumps>>

\* _fit_and_score, fit part: with error_score=np.nan (the default of line 65)
\* a raising fit is recorded as NaN and the search goes on
WorkerFit(w) ==
    /\ pc = "search"
    /\ workers[w].phase = "fit"
    /\ LET t == workers[w].task
           f == TaskFold(t)
       IN IF CvFitRaises(input, workers[w].est, f)
          THEN /\ results' = [results EXCEPT ![t] =
                      Outcome(NaN, TRUE, workers[w].est, f)]
               /\ workers' = [workers EXCEPT ![w] = Idle]
          ELSE /\ workers' = [workers EXCEPT ![w] =
                      [@ EXCEPT !.phase = "score",
                                !.est = Fit(@, TrainFolds(f))]]
               /\ UNCHANGED results
    /\ UNCHANGED <<pc, input, outDir, reportFile, modelFile, nextTask,
                   cv_results, best_index, best_estimator, final_model, dumps>>

\* _fit_and_score, score part: scoring="r2" on the held-out fold
WorkerScore(w) ==
    /\ pc = "search"
    /\ workers[w].phase = "score"
    /\ LET t == workers[w].task
           f == TaskFold(t)
       IN IF ScoreRaises(input, f)
          THEN \* the scorer raises: the exception leaves the search
               \* (scikit-learn 0.23) or is recorded as NaN (0.24 and later)
               \/ /\ pc' = "failed"
                  /\ UNCHANGED <<results, workers>>
               \/ /\ results' = [results EXCEPT ![t] =
                         Outcome(NaN, FALSE, workers[w].est, f)]
                  /\ workers' = [workers EXCEPT ![w] = Idle]
                  /\ UNCHANGED pc
          ELSE /\ results' = [results EXCEPT ![t] =
                      Outcome(R2Score(input, workers[w].est, f), FALSE,
                              workers[w].est, f)]
               /\ workers' = [workers EXCEPT ![w] = Idle]
               /\ UNCHANGED pc
    /\ UNCHANGED <<input, outDir, reportFile, modelFile, nextTask,
                   cv_results, best_index, best_estimator, final_model, dumps>>

\* ---------------------------------------------------------------- ranking
\* mutant: the ranking waits for the tasks to be handed out, not to return
AllDispatched == nextTask > NumTasks

\* every (candidate, fold) task has returned its outcome
AllDone == \A t \in Tasks : results[t].done

RECURSIVE SumScores(_, _, _)
SumScores(res, c, f) ==
    IF f = 0 THEN 0 ELSE res[TaskOf(c, f)].score.val + SumScores(res, c, f - 1)

\* mutant: the mean is taken over the folds that did not fail (np.nanmean)
MeanSkippingNaN(res, c) == Num(SumScores(res, c, n_splits))

\* mean_test_score of candidate c (numerator over n_splits): np.mean gives
\* NaN as soon as one fold's score is NaN
MeanTestScore(res, c) ==
    IF \E f \in Folds : res[TaskOf(c, f)].score.nan
    THEN NaN
    ELSE Num(SumScores(res, c, n_splits))

\* a > b on means, NaN counted below every number (np.nan_to_num with
\* nanmin - 1 before rankdata)
Above(a, b) ==
    IF a.nan THEN FALSE
    ELSE IF b.nan THEN TRUE
    ELSE a.val > b.val

\* rank_test_score: rankdata(-mean_test_score, method="min")
RankTestScore(mean, c) == 1 + Cardinality({d \in DOMAIN mean : Above(mean[d], mean[c])})

\* mutant: the last index of the least rank
ArgMinLast(rank) ==
    CHOOSE c \in DOMAIN rank :
        /\ \A d \in DOMAIN rank : rank[c] <= rank[d]
        /\ \A d \in DOMAIN rank : rank[d] = rank[c] => d <= c

\* best_index_ = rank_test_score.argmin(): the first index of the least rank
ArgMin(rank) ==
    CHOOSE c \in DOMAIN rank :
        /\ \A d \in DOMAIN rank : rank[c] <= rank[d]
        /\ \A d \in DOMAIN rank : rank[d] = rank[c] => c <= d

CvResults(res) ==
    LET mean == [c \in Cands |-> MeanTestScore(res, c)]
    IN  [mean |-> mean, rank |-> [c \in Cands |-> RankTestScore(mean, c)]]

\* line 71, after the parallel stage: _format_results and best_index_.
\* When every fit failed scikit-learn 1.1 and later raise, earlier ones rank.
Rank ==
    /\ pc = "search"
    /\ AllDone
    /\ \/ /\ \A t \in Tasks : results[t].fit_failed
          /\ pc' = "failed"
          /\ UNCHANGED <<cv_results, best_index>>
       \/ /\ cv_results' = CvResults(results)
          /\ best_index' = ArgMin(CvResults(results).rank)
          /\ pc' = "refit"
    /\ UNCHANGED <<input, outDir, reportFile, modelFile, nextTask, workers,
                   results, best_estimator, final_model, dumps>>

\* line 71, refit=True: best_estimator_ = clone(base).set_params(best).fit(X, y)
Refit ==
    /\ pc = "refit"
    /\ \E raises \in WholeFitRaises(input) :
         IF raises
         THEN pc' = "failed" /\ UNCHANGED best_estimator
         ELSE /\ best_estimator' =
                    Fit(SetParams(Clone(ml_pipe), candidates[best_index]), WholeFrame)
              /\ pc' = "report"
    /\ UNCHANGED <<input, outDir, reportFile, modelFile, nextTask, workers,
                   results, cv_results, best_index, final_model, dumps>>

\* ----------------------------------------------------------------- report
\* mutant: ascending order
MayPrecedeAscending(a, b) ==
    IF b.nan THEN TRUE
    ELSE IF a.nan THEN FALSE
    ELSE a.val <= b.val

\* row a may stand before row b in sort_values(ascending=False): NaN rows
\* last (na_position="last"), numbers in descending order
MayPrecede(a, b) ==
    IF b.nan THEN TRUE
    ELSE IF a.nan THEN FALSE
    ELSE a.val >= b.val

Perms(S) == {p \in [1..Cardinality(S) -> S] : \A i, j \in DOMAIN p : i # j => p[i] # p[j]}

\* orders sort_values(by="mean_test_score", ascending=False) can give; the
\* default kind is quicksort, so the order among equal means is not fixed
SortValues(mean) ==
    {p \in Perms(DOMAIN mean) :
        \A i, j \in DOMAIN p : i < j => MayPrecede(mean[p[i]], mean[p[j]])}

ReportRows(cv, order) ==
    [i \in DOMAIN order |->
        [index |-> order[i] - 1,
         alpha |-> candidates[order[i]],
         mean |-> cv.mean[order[i]],
         rank |-> cv.rank[order[i]]]]

\* mutant: a failed write of the report does not stop the run
WriteReportSwallow ==
    /\ pc = "report"
    /\ \/ /\ outDir = "present"
          /\ \E order \in SortValues(cv_results.mean) :
                reportFile' = ReportOf(ReportRows(cv_results, order))
       \/ reportFile' \in {reportFile, PartialFile}
    /\ pc' = "final_fit"
    /\ UNCHANGED <<input, outDir, modelFile, nextTask, workers, results,
                   cv_results, best_index, best_estimator, final_model, dumps>>

\* lines 75-77: sort cv_results_ and write it with to_csv into <out>
WriteReport ==
    /\ pc = "report"
    /\ \/ /\ outDir = "absent"          \* to_csv raises: no such directory
          /\ pc' = "failed"
          /\ UNCHANGED reportFile
       \/ /\ outDir = "present"
          /\ \E order \in SortValues(cv_results.mean) :
                reportFile' = ReportOf(ReportRows(cv_results, order))
          /\ pc' = "final_fit"
       \/ /\ outDir = "present"          \* the write fails (disk, permission)
          /\ reportFile' \in {reportFile, PartialFile}
          /\ pc' = "failed"
    /\ UNCHANGED <<input, outDir, modelFile, nextTask, workers, results,
                   cv_results, best_index, best_estimator, final_model, dumps>>

\* lines 80-81: final_model = best_estimator_; final_model.fit(X_train, y_train)
FinalFit ==
    /\ pc = "final_fit"
    /\ \E raises \in WholeFitRaises(input) :
         IF raises
         THEN pc' = "failed" /\ UNCHANGED final_model
         ELSE final_model' = Fit(best_estimator, WholeFrame) /\ pc' = "mkdir"
    /\ UNCHANGED <<input, outDir, reportFile, modelFile, nextTask, workers,
                   results, cv_results, best_index, best_estimator, dumps>>

\* line 85: Path(out).mkdir(parents=True, exist_ok=True)
Mkdir ==
    /\ pc = "mkdir"
    /\ outDir' = "present"
    /\ pc' = "dump"
    /\ UNCHANGED <<input, reportFile, modelFile, nextTask, workers, results,
                   cv_results, best_index, best_estimator, final_model, dumps>>

\* line 86: joblib.dump(final_model, <out>/model.pkl, compress=3)
Dump ==
    /\ pc = "dump"
    /\ \/ /\ modelFile' = ModelOf(final_model)
          /\ dumps' = dumps + 1
          /\ pc' = "done"
       \/ /\ modelFile' \in {modelFile, PartialFile}   \* the write fails
          /\ pc' = "failed"
          /\ UNCHANGED dumps
    /\ UNCHANGED <<input, outDir, reportFile, nextTask, workers, results,
                   cv_results, best_index, best_estimator, final_model>>

Next ==
    \/ ReadCsv
    \/ SelectColumns
    \/ \E w \in Workers : Dispatch(w)
    \/ \E w \in Workers : WorkerFit(w)
    \/ \E w \in Workers : WorkerScore(w)
    \/ Rank
    \/ Refit
    \/ WriteReport
    \/ FinalFit
    \/ Mkdir
    \/ Dump

Spec == Init /\ [][Next]_vars

\* ------------------------------------------- ranking and report, all tables
\* The state main is in when the parallel stage has returned, for every
\* table of per-fold outcomes a readable frame can give.
InitRank ==
    /\ pc = "search"
    /\ \E r2 \in AllTables : input = OkInput(r2)
    /\ outDir = "present"
    /\ reportFile = NoFile
    /\ modelFile = NoFile
    /\ nextTask = NumTasks + 1
    /\ workers = [w \in Workers |-> Idle]
    /\ results = [t \in Tasks |-> SequentialOutcome(input, TaskCand(t), TaskFold(t))]
    /\ cv_results = NoResults
    /\ best_index = 0
    /\ best_estimator = ml_pipe
    /\ final_model = ml_pipe
    /\ dumps = 0

NextRank ==
    \/ Rank
    \/ Refit
    \/ WriteReport

SpecRank == InitRank /\ [][NextRank]_vars

\* ------------------------------------------------------------------ claims
RunEnded == pc \in {"done", "failed"}
ReportWritten == reportFile.kind = "written"
ModelWritten == modelFile.kind = "written"
FitFailedSomewhere == \E t \in Tasks : results[t].done /\ results[t].fit_failed
Ranked == best_index # 0

\* C1 as stated: a run that has ended left both artifacts or neither
\* (never the report without the model artifact).
C1_AllOrNothing == RunEnded => (ReportWritten <=> ModelWritten)

\* C1 amended: the model artifact is written only by a run that wrote its
\* report first and went through to the end; a run that fails after the
\* report write keeps the report without the model artifact.
C1_ModelOnlyAfterReport ==
    /\ ModelWritten => ReportWritten /\ pc = "done"
    /\ pc = "done" => ReportWritten /\ ModelWritten
    /\ modelFile.kind = "partial" => ReportWritten

C1_Witness == pc = "failed" /\ ReportWritten /\ modelFile.kind = "partial"

\* the search of line 71 returned a ranking and a refit best estimator
SearchSucceeded == Ranked /\ best_estimator # ml_pipe

\* C2 as stated: when the search succeeded, a run whose output directory
\* was absent does not end with it still absent: the directory is created
\* and both artifacts are written into it.  (Nothing removes the directory,
\* so a directory absent at the end was absent at the start.)
C2_OutDirCreated ==
    (RunEnded /\ SearchSucceeded /\ outDir = "absent")
        => (outDir = "present" /\ ReportWritten /\ ModelWritten)

\* C3 as stated: once the fit of a pair has raised, the search ends in a
\* fatal error: main never gets a ranking and a best candidate back from it
\* (it stays inside the search of line 71 or has failed).
C3_FitFailureIsFatal ==
    FitFailedSomewhere => pc \in {"search", "refit", "failed"}

\* C3 amended: a raising fit does not stop the search, but it is not skipped
\* over either: every pair has its outcome recorded before the ranking, the
\* candidate's mean is NaN and not the mean of its remaining folds, and the
\* candidate is selected as best only when every candidate's mean is NaN.
C3_FailedFitDisqualifies ==
    Ranked =>
        /\ \A t \in Tasks : results[t].done
        /\ \A c \in Cands :
              (\E f \in Folds : results[TaskOf(c, f)].fit_failed) =>
                  /\ cv_results.mean[c].nan
                  /\ best_index = c => \A d \in Cands : cv_results.mean[d].nan

C3_Witness ==
    /\ pc = "done"
    /\ FitFailedSomewhere
    /\ \E c \in Cands : ~cv_results.mean[c].nan

\* C4: the selected candidate's mean held-out score is at least every other
\* candidate's mean, and every candidate enumerated before it has a strictly
\* smaller mean (first wins a tie).  A candidate with a failed fold has no
\* mean (NaN): it is selected only when no candidate has one, and then the
\* first is.
C4_BestIsFirstMaximum ==
    Ranked =>
        LET mean == [c \in Cands |-> MeanTestScore(results, c)]
            best == mean[best_index]
        IN  /\ best_index \in Cands
            /\ \A d \in Cands :
                  /\ ~mean[d].nan => (~best.nan /\ best.val >= mean[d].val)
                  /\ (~mean[d].nan /\ d < best_index) => best.val > mean[d].val
            /\ best.nan => best_index = 1

C4_Witness ==
    /\ Ranked
    /\ best_index = 1
    /\ \E d \in Cands :
          /\ d # 1
          /\ ~cv_results.mean[d].nan
          /\ cv_results.mean[d] = cv_results.mean[1]
    /\ \A d \in Cands : ~Above(cv_results.mean[d], cv_results.mean[1])

\* C5: the ranking is computed only when every (candidate, fold) evaluation
\* has returned and no worker is still busy, and the refit of the best
\* candidate on the whole frame starts only when the ranking is there.
C5_EvaluateThenRankThenRefit ==
    /\ (Ranked \/ cv_results # NoResults)
          => /\ \A t \in Tasks : results[t].done
             /\ \A w \in Workers : workers[w].phase = "idle"
             /\ nextTask = NumTasks + 1
    /\ pc \in {"refit", "report", "final_fit", "mkdir", "dump", "done"} => Ranked
    /\ (best_estimator # ml_pipe \/ final_model # ml_pipe) => Ranked

C5_Witness == pc = "final_fit" /\ Ranked /\ best_estimator # ml_pipe

\* C6: with an unreadable file, a missing column or a sentiment outside the
\* declared categories, the run writes nothing: it never gets past the
\* report step and both files stay as they were found.
C6_InputErrorWritesNothing ==
    input.kind # "ok" =>
        /\ reportFile \in {NoFile, StaleFile}
        /\ modelFile \in {NoFile, StaleFile}
        /\ pc \notin {"final_fit", "mkdir", "dump", "done"}
        /\ dumps = 0

C6_Witness ==
    /\ pc = "failed"
    /\ input.kind = "bad_sentiment"
    /\ Ranked
    /\ outDir = "present"

\* C7: the search space is the 10 values 500, 550, ..., 950; the written
\* report has exactly one row per searched candidate, each with that
\* candidate's mean, and the rows are in descending order of mean (rows
\* without a mean, NaN, come last).
C7_ReportRows ==
    /\ Len(param_grid) = 10
    /\ \A i \in 1..10 : param_grid[i] = 500 + 50 * (i - 1)
    /\ ReportWritten =>
          LET rows == reportFile.rows
          IN  /\ Len(rows) = Len(candidates)
              /\ \A c \in Cands :
                    Cardinality({i \in DOMAIN rows : rows[i].alpha = candidates[c]}) = 1
              /\ \A i \in DOMAIN rows :
                    /\ rows[i].alpha = candidates[rows[i].index + 1]
                    /\ rows[i].mean = MeanTestScore(results, rows[i].index + 1)
              /\ \A i \in DOMAIN rows : i < Len(rows) =>
                    \/ rows[i + 1].mean.nan
                    \/ /\ ~rows[i].mean.nan
                       /\ rows[i].mean.val >= rows[i + 1].mean.val

C7_Witness ==
    /\ ReportWritten
    /\ reportFile.rows[1].index # 0
    /\ \A i \in DOMAIN reportFile.rows : ~reportFile.rows[i].mean.nan
    /\ reportFile.rows[1].mean.val > reportFile.rows[Len(reportFile.rows)].mean.val

\* C8: the model artifact is the pipeline with the best candidate's alpha,
\* fit on the entire training frame, and it is written once, by the run
\* that ends well.
C8_ArtifactIsBestOnWholeFrame ==
    /\ ModelWritten =>
          /\ Ranked
          /\ modelFile.est.alpha = candidates[best_index]
          /\ modelFile.est.fitted_on = Folds
          /\ dumps = 1
    /\ pc = "done" => ModelWritten
    /\ dumps <= 1

C8_Witness == pc = "done" /\ ModelWritten /\ best_index # 1

\* C9: whatever the order in which the workers take and finish the tasks,
\* a busy worker holds its own estimator set to its own task's candidate,
\* no two workers hold the same task, every recorded outcome is the one
\* the sequential evaluation of that pair gives, and the ranking and the
\* best candidate are those of the sequential table.
C9_SameAsSequential ==
    LET seq == [t \in Tasks |->
                  SequentialOutcome(input, ((t - 1) \div n_splits) + 1,
                                           ((t - 1) % n_splits) + 1)]
    IN  /\ \A c \in Cands, f \in Folds :
              /\ results[TaskOf(c, f)].done =>
                    results[TaskOf(c, f)] = SequentialOutcome(input, c, f)
              /\ \A w \in Workers : workers[w].task = TaskOf(c, f) =>
                    workers[w].est.alpha = candidates[c]
        /\ \A v, w \in Workers :
              (v # w /\ workers[v].task # 0) => workers[v].task # workers[w].task
        /\ Ranked => /\ cv_results = CvResults(seq)
                     /\ best_index = ArgMin(CvResults(seq).rank)

C9_Witness ==
    /\ pc = "search"
    /\ \E s, t \in Tasks : s < t /\ results[t].done /\ ~results[s].done
    /\ \E w \in Workers : workers[w].phase = "score"

\* C10: the estimator a worker fits is unfitted when the fit starts; the
\* estimator it scores on the held-out fold was fit on exactly the rows of
\* the other folds; and every recorded outcome names these rows and no row
\* of its held-out fold.
C10_NoLeak ==
    /\ \A w \in Workers :
          /\ workers[w].phase = "fit" => workers[w].est.fitted_on = Unfitted
          /\ workers[w].phase = "score" =>
                LET f == ((workers[w].task - 1) % n_splits) + 1
                IN  workers[w].est.fitted_on = Folds \ {f}
    /\ \A c \in Cands, f \in Folds :
          LET r == results[TaskOf(c, f)]
          IN  (r.done /\ ~r.fit_failed) =>
                  /\ r.test = f
                  /\ r.train = Folds \ {f}
                  /\ r.test \notin r.train

C10_Witness ==
    \E w \in Workers :
        /\ workers[w].phase = "score"
        /\ workers[w].est.fitted_on # Unfitted
        /\ \E t \in Tasks : results[t].done /\ ~results[t].fit_failed

====
